---- MODULE Spec2Model ----
(***************************************************************************)
(* AD9508 clock-distribution driver (projects/ad9656_fmc/src/app/ad9508.c) *)
(* as a state machine: the register access functions ad9508_spi_read and   *)
(* ad9508_spi_write, the setup sequence ad9508_setup and the teardown      *)
(* ad9508_remove.  The SPI transport (spi_init, spi_write_and_read,        *)
(* spi_remove), malloc/free and mdelay are external; their outcomes are    *)
(* nondeterministic and every call the driver makes is appended to log.    *)
(***************************************************************************)
EXTENDS Integers, Sequences, FiniteSets, TLC

\* ---- bounds ----
\* number of ad9508_setup calls explored in one behaviour
MaxCalls == 2

\* ---- constants of error.h and ad9508.h (headers of the driver) ----
SUCCESS == 0
FAILURE == -1
AD9508_SPI_CONFIG == 0
AD9508_PART_ID_LOW == 12
AD9508_PART_ID_HIGH == 13
AD9508_OUT1_DIV_RATIO_LOW == 27
AD9508_OUT1_DIV_RATIO_HIGH == 28
AD9508_OUT1_PHASE_LOW == 29
AD9508_OUT1_PHASE_HIGH == 30
AD9508_PART_ID_VALUE == 5
AD9508_DIVIDE_RATIO_ONE == 0

\* ---- literals of ad9508.c ----
SOFT_RESET == 36
SETTLE_MS == 250
NULL == 0

\* ---- input domains ----
\* return codes of the SPI transport
SpiRets == {-2, FAILURE, SUCCESS}
\* byte values seen on the bus / in uninitialized storage
ByteSamples == {AD9508_PART_ID_VALUE % 256, AD9508_PART_ID_VALUE \div 256, 255}
\* 16-bit register addresses, both halves of the address space
AddrSamples == {hi * 256 + lo : hi \in {0, 1, 127, 128, 129, 255},
                                lo \in {0, 12, 13, 27, 255}}

\* ---- integer arithmetic of the C code ----
RECURSIVE BitOr(_, _)
BitOr(a, b) ==
    IF a = 0 THEN b
    ELSE IF b = 0 THEN a
    ELSE (IF a % 2 = 1 \/ b % 2 = 1 THEN 1 ELSE 0) + 2 * BitOr(a \div 2, b \div 2)

RECURSIVE BitAnd(_, _)
BitAnd(a, b) ==
    IF a = 0 \/ b = 0 THEN 0
    ELSE (IF a % 2 = 1 /\ b % 2 = 1 THEN 1 ELSE 0) + 2 * BitAnd(a \div 2, b \div 2)

\* conversion to uint8_t
U8(x) == x % 256

VARIABLES
    pc,        \* position of the caller / of the running driver function
    call,      \* the driver function running or last returned, with its arguments
    result,    \* value returned by the last finished driver function
    heap,      \* handles allocated by malloc and not freed
    spis,      \* SPI descriptors initialized by spi_init and not removed
    spi_desc,  \* dev->spi_desc of every handle (NULL: never set)
    nalloc,    \* number of handles handed out by malloc so far
    dev,       \* local dev of ad9508_setup, parameter dev of ad9508_remove
    device,    \* the caller's handle, *device of ad9508_setup
    ret,       \* local ret of ad9508_setup / ad9508_remove
    reg_data,  \* local reg_data of ad9508_setup, caller's *reg_data of ad9508_spi_read
    log,       \* external calls made by the running / last driver function
    setups     \* handles of setups that returned SUCCESS and were not removed

vars == <<pc, call, result, heap, spis, spi_desc, nalloc, dev, device, ret,
          reg_data, log, setups>>

Handles == 1 .. (MaxCalls + 1)

\* an entry of log: the function called, its arguments, its outcome
Event(fn, args, out) == <<fn, args, out>>

\* ---- ad9508_spi_read ----
ReadFrameNoFlag(reg_addr) ==
    <<U8(reg_addr \div 256), U8(BitAnd(reg_addr, 255)), 0>>

ReadFrame(reg_addr) ==
    <<U8(BitOr(128, reg_addr \div 256)), U8(BitAnd(reg_addr, 255)), 0>>

ReadStoreAlways(r, buf2, old) == buf2

\* value of *reg_data after the call: stored only when the transfer succeeded
ReadStore(r, buf2, old) == IF r < 0 THEN old ELSE buf2

\* the whole call: one transfer with outcome (r, buf2)
SpiRead(reg_addr, r, buf2) ==
    /\ log' = Append(log, Event("xfer", ReadFrame(reg_addr), <<r, buf2>>))
    /\ reg_data' = ReadStore(r, buf2, reg_data)

\* ---- ad9508_spi_write ----
WriteFrame(reg_addr, data) ==
    <<U8(reg_addr \div 256), U8(BitAnd(reg_addr, 255)), data>>

SpiWrite(reg_addr, data, r) ==
    log' = Append(log, Event("xfer", WriteFrame(reg_addr, data), <<r>>))

\* ---- return to the caller ----
Return(v) ==
    /\ pc' = "idle"
    /\ result' = v

\* ---- ad9508_setup ----
SetupCall ==
    /\ pc = "idle"
    /\ nalloc < MaxCalls
    /\ pc' = "s_malloc"
    /\ call' = [fn |-> "ad9508_setup", reg_addr |-> 0, reg_data |-> 0]
    /\ log' = <<>>
    /\ dev' = NULL
    /\ ret' = 0
    /\ \E u \in ByteSamples : reg_data' = u    \* uninitialized local
    /\ UNCHANGED <<result, heap, spis, spi_desc, nalloc, device, setups>>

SetupMalloc ==
    /\ pc = "s_malloc"
    /\ \/ /\ dev' = NULL
          /\ log' = Append(log, Event("malloc", <<>>, <<NULL>>))
          /\ Return(FAILURE)
          /\ UNCHANGED <<heap, nalloc, spi_desc>>
       \/ /\ dev' = nalloc + 1
          /\ nalloc' = nalloc + 1
          /\ heap' = heap \cup {nalloc + 1}
          /\ spi_desc' = [spi_desc EXCEPT ![nalloc + 1] = NULL]
          /\ log' = Append(log, Event("malloc", <<>>, <<nalloc + 1>>))
          /\ pc' = "s_spi_init"
          /\ UNCHANGED result
    /\ UNCHANGED <<call, spis, device, ret, reg_data, setups>>

SpiInitFailedOnlyFailure(r) == r = FAILURE

SpiInitFailed(r) == r # SUCCESS

SetupSpiInit ==
    /\ pc = "s_spi_init"
    /\ \E r \in SpiRets :
        /\ ret' = r
        /\ log' = Append(log, Event("spi_init", <<dev>>, <<r>>))
        /\ IF r = SUCCESS
           THEN /\ spis' = spis \cup {dev}
                /\ spi_desc' = [spi_desc EXCEPT ![dev] = dev]
           ELSE UNCHANGED <<spis, spi_desc>>
        /\ IF SpiInitFailed(r)
           THEN Return(r)
           ELSE pc' = "s_reset" /\ UNCHANGED result
    /\ UNCHANGED <<call, heap, nalloc, dev, device, reg_data, setups>>

AfterResetNoDelay == "s_id_low"

AfterReset == "s_delay"

SetupReset ==
    /\ pc = "s_reset"
    /\ \E r \in SpiRets : SpiWrite(AD9508_SPI_CONFIG, SOFT_RESET, r)
    /\ pc' = AfterReset
    /\ UNCHANGED <<call, result, heap, spis, spi_desc, nalloc, dev, device, ret,
                   reg_data, setups>>

SetupDelay ==
    /\ pc = "s_delay"
    /\ log' = Append(log, Event("mdelay", <<SETTLE_MS>>, <<>>))
    /\ pc' = "s_id_low"
    /\ UNCHANGED <<call, result, heap, spis, spi_desc, nalloc, dev, device, ret,
                   reg_data, setups>>

PartIdLowOk(b) == b = BitAnd(AD9508_PART_ID_VALUE, 255)

PartIdHighOkAlways(b) == TRUE

PartIdHighOk(b) == b = AD9508_PART_ID_VALUE \div 256

SetupIdLow ==
    /\ pc = "s_id_low"
    /\ \E r \in SpiRets, b \in ByteSamples : SpiRead(AD9508_PART_ID_LOW, r, b)
    /\ IF PartIdLowOk(reg_data')
       THEN pc' = "s_id_high" /\ UNCHANGED result
       ELSE Return(FAILURE)
    /\ UNCHANGED <<call, heap, spis, spi_desc, nalloc, dev, device, ret, setups>>

SetupIdHigh ==
    /\ pc = "s_id_high"
    /\ \E r \in SpiRets, b \in ByteSamples : SpiRead(AD9508_PART_ID_HIGH, r, b)
    /\ IF PartIdHighOk(reg_data')
       THEN pc' = "s_div_low" /\ UNCHANGED result
       ELSE Return(FAILURE)
    /\ UNCHANGED <<call, heap, spis, spi_desc, nalloc, dev, device, ret, setups>>

\* one of the four configuration writes
ConfigWrite(at, reg, next) ==
    /\ pc = at
    /\ \E r \in SpiRets : SpiWrite(reg, AD9508_DIVIDE_RATIO_ONE, r)
    /\ pc' = next
    /\ UNCHANGED <<call, result, heap, spis, spi_desc, nalloc, dev, device, ret,
                   reg_data, setups>>

SetupDivLow == ConfigWrite("s_div_low", AD9508_OUT1_DIV_RATIO_LOW, "s_div_high")

SetupDivHigh == ConfigWrite("s_div_high", AD9508_OUT1_DIV_RATIO_HIGH, "s_phase_low")

SetupPhaseLow == ConfigWrite("s_phase_low", AD9508_OUT1_PHASE_LOW, "s_phase_high")

SetupPhaseHigh == ConfigWrite("s_phase_high", AD9508_OUT1_PHASE_HIGH, "s_return")

SetupReturn ==
    /\ pc = "s_return"
    /\ Return(SUCCESS)
    /\ setups' = setups \cup {dev}
    /\ UNCHANGED <<call, heap, spis, spi_desc, nalloc, dev, device, ret, reg_data, log>>

\* ---- ad9508_remove ----
\* called on the handle of a setup that succeeded
RemoveCall ==
    /\ pc = "idle"
    /\ \E d \in setups :
        /\ dev' = d
        /\ call' = [fn |-> "ad9508_remove", reg_addr |-> 0, reg_data |-> 0]
    /\ pc' = "r_spi_remove"
    /\ log' = <<>>
    /\ ret' = 0
    /\ UNCHANGED <<result, heap, spis, spi_desc, nalloc, device, reg_data, setups>>

RemoveSpiRemove ==
    /\ pc = "r_spi_remove"
    /\ \E r \in SpiRets :
        /\ ret' = r
        /\ log' = Append(log, Event("spi_remove", <<spi_desc[dev]>>, <<r>>))
        /\ spis' = IF r = SUCCESS THEN spis \ {spi_desc[dev]} ELSE spis
    /\ pc' = "r_free"
    /\ UNCHANGED <<call, result, heap, spi_desc, nalloc, dev, device, reg_data, setups>>

RemoveResultSuccess(r) == SUCCESS

RemoveResult(r) == r

RemoveFree ==
    /\ pc = "r_free"
    /\ heap' = heap \ {dev}
    /\ log' = Append(log, Event("free", <<dev>>, <<>>))
    /\ setups' = setups \ {dev}
    /\ Return(RemoveResult(ret))
    /\ UNCHANGED <<call, spis, spi_desc, nalloc, dev, device, ret, reg_data>>

\* ---- system: setups and removals ----
Init ==
    /\ pc = "idle"
    /\ call = [fn |-> "none", reg_addr |-> 0, reg_data |-> 0]
    /\ result = 0
    /\ heap = {}
    /\ spis = {}
    /\ spi_desc = [h \in Handles |-> NULL]
    /\ nalloc = 0
    /\ dev = NULL
    /\ device = NULL
    /\ ret = 0
    /\ reg_data = 0
    /\ log = <<>>
    /\ setups = {}

Next ==
    \/ SetupCall
    \/ SetupMalloc
    \/ SetupSpiInit
    \/ SetupReset
    \/ SetupDelay
    \/ SetupIdLow
    \/ SetupIdHigh
    \/ SetupDivLow
    \/ SetupDivHigh
    \/ SetupPhaseLow
    \/ SetupPhaseHigh
    \/ SetupReturn
    \/ RemoveCall
    \/ RemoveSpiRemove
    \/ RemoveFree

Spec == Init /\ [][Next]_vars

\* ---- register access on a live handle ----
\* ad9508_spi_read(dev, a, &reg_data) with *reg_data = old before the call
RegRead ==
    /\ pc = "idle"
    /\ \E a \in AddrSamples, old \in ByteSamples, r \in SpiRets, b \in ByteSamples :
        /\ call' = [fn |-> "ad9508_spi_read", reg_addr |-> a, reg_data |-> old]
        /\ log' = <<Event("xfer", ReadFrame(a), <<r, b>>)>>
        /\ reg_data' = ReadStore(r, b, old)
        /\ Return(r)
    /\ UNCHANGED <<heap, spis, spi_desc, nalloc, dev, device, ret, setups>>

\* ad9508_spi_write(dev, a, v)
RegWrite ==
    /\ pc = "idle"
    /\ \E a \in AddrSamples, v \in ByteSamples, r \in SpiRets :
        /\ call' = [fn |-> "ad9508_spi_write", reg_addr |-> a, reg_data |-> v]
        /\ log' = <<Event("xfer", WriteFrame(a, v), <<r>>)>>
        /\ Return(r)
    /\ UNCHANGED <<heap, spis, spi_desc, nalloc, dev, device, ret, reg_data, setups>>

InitReg ==
    /\ pc = "idle"
    /\ call = [fn |-> "none", reg_addr |-> 0, reg_data |-> 0]
    /\ result = 0
    /\ heap = {1}
    /\ spis = {1}
    /\ spi_desc = [h \in Handles |-> IF h = 1 THEN 1 ELSE NULL]
    /\ nalloc = 1
    /\ dev = 1
    /\ device = NULL
    /\ ret = 0
    /\ reg_data = 0
    /\ log = <<>>
    /\ setups = {1}

NextReg ==
    \/ RegRead
    \/ RegWrite

SpecReg == InitReg /\ [][NextReg]_vars

\* ---- vocabulary of the properties ----
Returned(fn) == pc = "idle" /\ call.fn = fn

InSetup == call.fn = "ad9508_setup"

\* the SPI wire protocol for a 15-bit register address
WireWrite(reg, v) == <<reg \div 256, reg % 256, v>>

WireRead(reg) == <<128 + reg \div 256, reg % 256, 0>>

LogIdx == 1 .. Len(log)

IsXfer(i) == log[i][1] = "xfer"

XferFailed(i) == IsXfer(i) /\ log[i][3][1] < 0

\* a successful read of register reg delivered a byte other than expected
IdMismatch(reg, expected) ==
    \E i \in LogIdx : /\ IsXfer(i)
                      /\ log[i][2] = WireRead(reg)
                      /\ log[i][3][1] >= 0
                      /\ log[i][3][2] # expected

ConfigRegs == {AD9508_OUT1_DIV_RATIO_LOW, AD9508_OUT1_DIV_RATIO_HIGH,
               AD9508_OUT1_PHASE_LOW, AD9508_OUT1_PHASE_HIGH}

NoConfigWrite ==
    \A i \in LogIdx : \A reg \in ConfigRegs :
        ~(IsXfer(i) /\ log[i][2] = WireWrite(reg, AD9508_DIVIDE_RATIO_ONE))

\* the calls of log from position 3 on (after malloc and spi_init), without outcomes
TransportCalls ==
    [i \in 1 .. (IF Len(log) > 2 THEN Len(log) - 2 ELSE 0) |->
        <<log[i + 2][1], log[i + 2][2]>>]

SetupSequence ==
    << <<"xfer", WireWrite(AD9508_SPI_CONFIG, 36)>>,
       <<"mdelay", <<250>>>>,
       <<"xfer", WireRead(AD9508_PART_ID_LOW)>>,
       <<"xfer", WireRead(AD9508_PART_ID_HIGH)>>,
       <<"xfer", WireWrite(AD9508_OUT1_DIV_RATIO_LOW, AD9508_DIVIDE_RATIO_ONE)>>,
       <<"xfer", WireWrite(AD9508_OUT1_DIV_RATIO_HIGH, AD9508_DIVIDE_RATIO_ONE)>>,
       <<"xfer", WireWrite(AD9508_OUT1_PHASE_LOW, AD9508_DIVIDE_RATIO_ONE)>>,
       <<"xfer", WireWrite(AD9508_OUT1_PHASE_HIGH, AD9508_DIVIDE_RATIO_ONE)>> >>

IsPrefix(s, t) == Len(s) <= Len(t) /\ s = SubSeq(t, 1, Len(s))

\* ---- C1 ----
\* C1: for every 16-bit address and every value, the frame ad9508_spi_write
\* hands to the transport has the MSB of byte 0 clear, the low 7 bits of byte 0
\* equal to address bits 14-8, byte 1 equal to address bits 7-0 and byte 2 equal
\* to the value, addresses with bit 15 set included.
C1_WriteFrameFlagClear ==
    Returned("ad9508_spi_write") =>
        LET f == log[1][2]
            a == call.reg_addr
        IN  /\ f[1] \div 128 = 0
            /\ f[1] % 128 = (a \div 256) % 128
            /\ f[2] = a % 256
            /\ f[3] = call.reg_data

\* ---- C2 ----
\* C2: for every 16-bit address, the frame ad9508_spi_read hands to the
\* transport has the MSB of byte 0 set, the low 7 bits of byte 0 equal to
\* address bits 14-8, byte 1 equal to address bits 7-0 and byte 2 equal to 0;
\* when the transfer succeeds the value stored through reg_data is the third
\* byte of the buffer after the transfer.
C2_ReadFrameFlagSet ==
    Returned("ad9508_spi_read") =>
        LET f == log[1][2]
            a == call.reg_addr
            r == log[1][3][1]
            b == log[1][3][2]
        IN  /\ f[1] \div 128 = 1
            /\ f[1] % 128 = (a \div 256) % 128
            /\ f[2] = a % 256
            /\ f[3] = 0
            /\ (r >= 0 => reg_data = b)

C2_Witness ==
    /\ Returned("ad9508_spi_read")
    /\ call.reg_addr = 127 * 256 + 13
    /\ log[1][3][1] = SUCCESS
    /\ reg_data # call.reg_data
    /\ reg_data = 255

\* ---- C3 ----
\* C3: whenever ad9508_setup returns SUCCESS the caller's handle *device refers
\* to the handle setup allocated, whose SPI transport is the one spi_init
\* initialized during the call.
C3_HandlePopulated ==
    (Returned("ad9508_setup") /\ result = SUCCESS) =>
        /\ device = dev
        /\ device \in heap
        /\ spi_desc[dev] \in spis
        /\ log[2] = Event("spi_init", <<spi_desc[dev]>>, <<SUCCESS>>)

\* ---- C4 ----
\* C4: if the byte read from AD9508_PART_ID_LOW differs from the low byte of
\* AD9508_PART_ID_VALUE, or the byte read from AD9508_PART_ID_HIGH differs from
\* its high byte, ad9508_setup returns a non-SUCCESS value and none of the four
\* configuration registers is written.
C4_IdMismatchFails ==
    (InSetup /\ (\/ IdMismatch(AD9508_PART_ID_LOW, AD9508_PART_ID_VALUE % 256)
                 \/ IdMismatch(AD9508_PART_ID_HIGH, AD9508_PART_ID_VALUE \div 256))) =>
        /\ pc = "idle"
        /\ result # SUCCESS
        /\ NoConfigWrite

C4_Witness ==
    /\ Returned("ad9508_setup")
    /\ IdMismatch(AD9508_PART_ID_HIGH, AD9508_PART_ID_VALUE \div 256)
    /\ ~IdMismatch(AD9508_PART_ID_LOW, AD9508_PART_ID_VALUE % 256)
    /\ \A i \in LogIdx : ~XferFailed(i)
    /\ result = FAILURE

\* ---- C5 ----
\* C5: if the transport reports an error on any transfer issued by
\* ad9508_setup, setup returns a failure code and never SUCCESS, and no later
\* step of the sequence is executed after the failed one.
C5_TransferErrorFailsSetup ==
    InSetup =>
        \A i \in LogIdx : XferFailed(i) =>
            /\ i = Len(log)
            /\ pc = "idle"
            /\ result # SUCCESS

\* ---- C6 ----
\* C6: ad9508_remove calls spi_remove on the handle's transport exactly once,
\* then frees the handle whether spi_remove succeeded or not, and returns the
\* code spi_remove returned.
C6_RemoveFreesAndPropagates ==
    Returned("ad9508_remove") =>
        /\ dev \notin heap
        /\ Len(log) = 2
        /\ log[1][1] = "spi_remove"
        /\ log[1][2] = <<spi_desc[dev]>>
        /\ log[2] = Event("free", <<dev>>, <<>>)
        /\ result = log[1][3][1]

C6_Witness ==
    /\ Returned("ad9508_remove")
    /\ log[1][3][1] = -2
    /\ result = -2
    /\ dev \notin heap

\* ---- C7 ----
\* C7: the transport calls of ad9508_setup are always a prefix of: soft-reset
\* write of 0x24 to AD9508_SPI_CONFIG, mdelay(250), read AD9508_PART_ID_LOW,
\* read AD9508_PART_ID_HIGH, write AD9508_DIVIDE_RATIO_ONE to the four
\* divider/phase registers; a run that returns SUCCESS issued exactly the whole
\* sequence.
C7_SetupSequence ==
    InSetup =>
        /\ IsPrefix(TransportCalls, SetupSequence)
        /\ (pc = "idle" /\ result = SUCCESS) => TransportCalls = SetupSequence

C7_Witness ==
    /\ Returned("ad9508_setup")
    /\ result = SUCCESS
    /\ Len(log) = 10
    /\ TransportCalls = SetupSequence

\* ---- C8 ----
\* C8: ad9508_spi_read and ad9508_spi_write return the code of the single
\* 3-byte transfer they perform; when that code is negative ad9508_spi_read
\* leaves *reg_data as it was before the call.
C8_AccessFailsWithTransport ==
    (Returned("ad9508_spi_read") \/ Returned("ad9508_spi_write")) =>
        /\ Len(log) = 1
        /\ IsXfer(1)
        /\ Len(log[1][2]) = 3
        /\ result = log[1][3][1]
        /\ (result < 0) <=> XferFailed(1)
        /\ (call.fn = "ad9508_spi_read" /\ XferFailed(1)) => reg_data = call.reg_data

C8_Witness ==
    /\ Returned("ad9508_spi_read")
    /\ log[1][3] = <<-2, 255>>
    /\ result = -2
    /\ call.reg_data = 0
    /\ reg_data = 0

\* ---- C9 ----
\* C9: within ad9508_setup every transfer and delay follows a spi_init that
\* returned SUCCESS and uses a live descriptor; when malloc fails setup returns
\* FAILURE having called nothing else; when spi_init returns a non-SUCCESS code
\* setup returns that code having issued no transfer and no delay.
C9_NoTransferBeforeInit ==
    InSetup =>
        /\ \A i \in LogIdx : log[i][1] \in {"xfer", "mdelay"} =>
              /\ i > 2
              /\ log[2] = Event("spi_init", <<dev>>, <<SUCCESS>>)
              /\ spi_desc[dev] \in spis
        /\ (Len(log) >= 1 /\ log[1] = Event("malloc", <<>>, <<NULL>>)) =>
              (Len(log) = 1 /\ pc = "idle" /\ result = FAILURE)
        /\ (Len(log) >= 2 /\ log[2][1] = "spi_init" /\ log[2][3][1] # SUCCESS) =>
              (Len(log) = 2 /\ pc = "idle" /\ result = log[2][3][1])

C9_Witness ==
    /\ Returned("ad9508_setup")
    /\ Len(log) = 2
    /\ log[2][3] = <<-2>>
    /\ result = -2

\* ---- C10 ----
\* C10: when ad9508_setup returns a non-SUCCESS value the handle it allocated
\* has been freed and the transport it initialized has been removed, so that
\* between calls the only outstanding handles are those of successful setups
\* not yet removed.
C10_NoLeakOnFailure ==
    /\ (Returned("ad9508_setup") /\ result # SUCCESS /\ dev # NULL) =>
          (dev \notin heap /\ spi_desc[dev] \notin spis)
    /\ pc = "idle" => heap = setups

====
